---- MODULE Spec2Model ----
(***************************************************************************)
(* A model of the wnet socket layer (src/socket.cpp, src/socket.h): the    *)
(* FileDescriptor handle, the Socket state machine and the operating       *)
(* system's descriptor table the Socket operations act on.                 *)
(***************************************************************************)
EXTENDS Integers, Sequences, FiniteSets, TLC

(* ---------------------------------------------------------------- bounds *)
\* Number of Socket objects the program holds at once.
MaxSockets == 2
\* Size of the process's descriptor table (descriptors 0 .. MaxFd-1).
MaxFd == 3
\* Longest byte stream a peer delivers to one receive call, and the largest
\* buffer / max_length a caller passes.
MaxLen == 2
\* Number of operations a run of the program performs.
MaxOps == 3

SockIds == 1..MaxSockets
Fds == 0..(MaxFd - 1)

(* ----------------------------------------------------------- enumerations *)
\* Socket::Type
Type == {"TCP", "UDP"}
\* Socket::State
State == {"Create", "Listen", "Bind", "Recv", "Accept", "Connect", "Close"}
\* Kernel-side condition of a descriptor.
KState == {"free", "unbound", "bound", "listening", "connected"}
\* Peer addresses the kernel reports from accept.
Peers == {"p1", "p2"}
\* Bytes on the wire.
Byte == {"a", "\n"}

VARIABLES
  impl,    \* impl[s]: the Socket object in slot s and its Impl
  kfd,     \* kfd[d]: the kernel's state of descriptor d
  last,    \* the most recent call: operation, outcome, OS calls it issued
  ops,     \* number of operations performed so far
  inb,     \* bytes the peer of the served connection sent, not yet received
  outb,    \* bytes the OS has taken from the server on that connection
  fsys,    \* fsys[f]: what the file data/f is
  http,    \* the most recent call at the HTTP layer and what it did
  ep,      \* the Endpoint values under construction and comparison
  srv      \* main: its position, the shutdown flag, the exit code

\* The state of the Socket layer, of the served connection, of the Endpoints,
\* of main.
sockVars == <<impl, kfd, last, ops>>
httpVars == <<inb, outb, fsys, http>>
addrVars == <<ep>>
mainVars == <<srv>>

vars == <<impl, kfd, last, ops, inb, outb, fsys, http, ep, srv>>

(* ------------------------------------------------------- the Socket object *)
\* Beside the members of Socket::Impl (fd, type, state, last_error) a Socket
\* carries its history: closes, the close() calls made on it (counted up to
\* two), and listened, whether a listen() on it has succeeded.
\* A slot holding no Socket object.
NoSocket ==
  [tag |-> "none", fd |-> -1, type |-> "TCP", state |-> "Create",
   last_error |-> "none", closes |-> 0, listened |-> FALSE]

\* A moved-from Socket: the object exists, its _impl is null.
NullImpl ==
  [tag |-> "null", fd |-> -1, type |-> "TCP", state |-> "Create",
   last_error |-> "none", closes |-> 0, listened |-> FALSE]

\* Socket::Impl as Impl(Type t) leaves it: fd invalid, last_error empty, and
\* state without an initializer, so its value is whatever st the build reads.
NewImpl(t, st) ==
  [tag |-> "impl", fd |-> -1, type |-> t, state |-> st,
   last_error |-> "none", closes |-> 0, listened |-> FALSE]

HasImpl(s) == impl[s].tag = "impl"

\* The Socket objects that exist, and those among them that hold an Impl: the
\* member functions that dereference _impl are called on the latter only.
Objects == {s \in SockIds : impl[s].tag # "none"}
Sockets == {s \in SockIds : impl[s].tag = "impl"}

\* The slot a newly constructed Socket object is named by: the lowest empty one.
EmptySlot(t) ==
  impl[t].tag = "none" /\ \A u \in SockIds : u < t => impl[u].tag # "none"
Empty == {t \in SockIds : EmptySlot(t)}

\* FileDescriptor::is_valid
is_valid(fd) == fd >= 0

(* ------------------------------------------------------ the operating system *)
\* The world an operation runs against: the descriptor table k and the log os
\* of the OS calls the operation has issued so far.
World(k) == [k |-> k, os |-> <<>>]

Open(k, d) == d \in Fds /\ k[d] # "free"
HasFree(k) == \E d \in Fds : k[d] = "free"
LowestFree(k) ==
  CHOOSE d \in Fds : k[d] = "free" /\ \A e \in Fds : e < d => k[e] # "free"

Logged(w, call, d, ret) ==
  Append(w.os, [call |-> call, fd |-> d, ret |-> ret])

\* ::close(d)
SysClose(w, d) ==
  [k  |-> IF Open(w.k, d) THEN [w.k EXCEPT ![d] = "free"] ELSE w.k,
   os |-> Logged(w, "close", d, IF Open(w.k, d) THEN 0 ELSE -1)]

\* ::socket(AF_INET, SOCK_STREAM, 0); ok is the kernel's willingness.
SysSocket(w, ok) ==
  IF ok /\ HasFree(w.k)
  THEN LET d == LowestFree(w.k)
       IN [ret |-> d, err |-> "none",
           w |-> [k  |-> [w.k EXCEPT ![d] = "unbound"],
                  os |-> Logged(w, "socket", -1, d)]]
  ELSE [ret |-> -1, err |-> IF HasFree(w.k) THEN "ENOMEM" ELSE "EMFILE",
        w |-> [w EXCEPT !.os = Logged(w, "socket", -1, -1)]]

\* A call on descriptor d that succeeds only from the kernel states in from
\* (and then only if the kernel is willing), moving d to kernel state to and
\* returning val; wrong is the errno for a descriptor in another state.
SysCall(w, call, d, ok, from, to, wrong, val) ==
  IF ~Open(w.k, d)
  THEN [ret |-> -1, err |-> "EBADF",
        w |-> [w EXCEPT !.os = Logged(w, call, d, -1)]]
  ELSE IF w.k[d] \notin from
  THEN [ret |-> -1, err |-> wrong,
        w |-> [w EXCEPT !.os = Logged(w, call, d, -1)]]
  ELSE IF ~ok
  THEN [ret |-> -1, err |-> "ENOMEM",
        w |-> [w EXCEPT !.os = Logged(w, call, d, -1)]]
  ELSE [ret |-> val, err |-> "none",
        w |-> [k  |-> [w.k EXCEPT ![d] = IF to = "same" THEN @ ELSE to],
               os |-> Logged(w, call, d, val)]]

\* ::bind: only a socket that has no local address yet can be bound.
SysBind(w, d, ok) ==
  SysCall(w, "bind", d, ok, {"unbound"}, "bound", "EINVAL", 0)

\* ::listen: refused on a connected socket; an unbound one is bound to an
\* ephemeral port by the kernel.
SysListen(w, d, ok) ==
  SysCall(w, "listen", d, ok, {"unbound", "bound", "listening"}, "listening",
          "EINVAL", 0)

\* ::connect: refused on a listening or already connected socket.
SysConnect(w, d, ok) ==
  SysCall(w, "connect", d, ok, {"unbound", "bound"}, "connected", "EISCONN", 0)

\* ::shutdown
SysShutdown(w, d, ok) ==
  SysCall(w, "shutdown", d, ok, {"listening", "connected"}, "same",
          "ENOTCONN", 0)

\* ::send / ::recv transferring cnt bytes: only on a connected socket.
SysSend(w, d, ok, cnt) ==
  SysCall(w, "send", d, ok, {"connected"}, "same", "ENOTCONN", cnt)

SysRecv(w, d, ok, cnt) ==
  SysCall(w, "recv", d, ok, {"connected"}, "same", "ENOTCONN", cnt)

\* ::accept: only on a listening socket; hands out the lowest free descriptor.
SysAccept(w, d, ok) ==
  IF ~Open(w.k, d)
  THEN [ret |-> -1, err |-> "EBADF",
        w |-> [w EXCEPT !.os = Logged(w, "accept", d, -1)]]
  ELSE IF w.k[d] # "listening"
  THEN [ret |-> -1, err |-> "EINVAL",
        w |-> [w EXCEPT !.os = Logged(w, "accept", d, -1)]]
  ELSE IF ~ok \/ ~HasFree(w.k)
  THEN [ret |-> -1, err |-> IF HasFree(w.k) THEN "ENOMEM" ELSE "EMFILE",
        w |-> [w EXCEPT !.os = Logged(w, "accept", d, -1)]]
  ELSE LET c == LowestFree(w.k)
       IN [ret |-> c, err |-> "none",
           w |-> [k  |-> [w.k EXCEPT ![c] = "connected"],
                  os |-> Logged(w, "accept", d, c)]]

(* ---------------------------------------------------------- FileDescriptor *)
\* FileDescriptor::reset(fd): closes the descriptor held, adopts newfd.
FdReset(w, fd, newfd) ==
  [w |-> IF is_valid(fd) THEN SysClose(w, fd) ELSE w, fd |-> newfd]

\* FileDescriptor::~FileDescriptor
FdDestroy(w, fd) == IF is_valid(fd) THEN SysClose(w, fd) ELSE w

(* ------------------------------------------------------------- bookkeeping *)
\* The record of a call: op on slot s, its result res ("ok", "fail", "throw"),
\* the error code err of the failure, the OS calls os it issued, the slot t of
\* a Socket it returned, the peer the kernel reported and the address addr
\* returned, the count n and the bytes val returned.
Called(op, s, res, err, w) ==
  [op |-> op, s |-> s, res |-> res, err |-> err, os |-> w.os,
   t |-> 0, peer |-> "none", addr |-> "none", n |-> 0, val |-> <<>>]

\* No connection is being served, no Endpoint is being built, main is not
\* running.
NoHttp == [op |-> "none"]
NoEndpoint == [op |-> "none"]
NoServer == [pc |-> "none"]
HttpIdle == inb = <<>> /\ outb = <<>> /\ fsys = <<>> /\ http = NoHttp
AddrIdle == ep = NoEndpoint
MainIdle == srv = NoServer

\* One more operation of the Socket layer has run; it touches nothing else.
Tick ==
  /\ ops < MaxOps /\ ops' = ops + 1
  /\ UNCHANGED <<httpVars, addrVars, mainVars>>

Commit(w) == kfd' = w.k /\ Tick

(* -------------------------------------------------------------------- Init *)
\* No Socket exists and no descriptor is open.
SockIdle ==
  /\ impl = [s \in SockIds |-> NoSocket]
  /\ kfd = [d \in Fds |-> "free"]
  /\ last = Called("none", 0, "ok", "none", World(kfd))
  /\ ops = 0

Init == SockIdle /\ HttpIdle /\ AddrIdle /\ MainIdle

(* ------------------------------------------------------------ constructors *)
\* Socket::Socket(type) run in a fresh Impl: the outcome of the constructor.
\* socket() failing throws; otherwise fd.reset(fd) adopts the descriptor.
SocketCtor(w, t, st, ok) ==
  LET r == SysSocket(w, ok)
  IN IF r.ret < 0
     THEN [thrown |-> TRUE, w |-> r.w, impl |-> NoSocket]
     ELSE LET f == FdReset(r.w, NewImpl(t, st).fd, r.ret)
          IN [thrown |-> FALSE, w |-> f.w,
              impl |-> [NewImpl(t, st) EXCEPT !.fd = f.fd]]

\* Socket::create(type) into slot s: the constructor's fault becomes nullopt.
Create(s, t, st, ok) ==
  /\ LET c == SocketCtor(World(kfd), t, st, ok)
     IN /\ impl' = [impl EXCEPT ![s] = c.impl]
        /\ Commit(c.w)
        /\ last' = Called("create", s, IF c.thrown THEN "fail" ELSE "ok",
                          "none", c.w)

(* --------------------------------------------------------- close / destroy *)
\* Socket::close that closes the descriptor and forgets to give it up.
CloseImpl_KeepsFd(w, i) ==
  IF i.tag = "impl" /\ is_valid(i.fd)
  THEN [w |-> SysClose(w, i.fd), impl |-> [i EXCEPT !.state = "Close"]]
  ELSE [w |-> w, impl |-> i]

\* Socket::close
CloseImpl(w, i) ==
  IF i.tag = "impl" /\ is_valid(i.fd)
  THEN LET w1 == SysClose(w, i.fd)
           f  == FdReset(w1, i.fd, -1)
       IN [w |-> f.w, impl |-> [i EXCEPT !.fd = f.fd, !.state = "Close"]]
  ELSE [w |-> w, impl |-> i]

Close(s) ==
  /\ LET c == CloseImpl(World(kfd), impl[s])
     IN /\ impl' = [impl EXCEPT ![s] =
                      IF c.impl.tag = "impl"
                      THEN [c.impl EXCEPT !.closes = IF @ < 2 THEN @ + 1 ELSE @]
                      ELSE c.impl]
        /\ Commit(c.w)
        /\ last' = Called("close", s, "ok", "none", c.w)

\* Socket::~Socket followed by the destruction of _impl (Impl, then its fd).
DestroyImpl(w, i) ==
  LET w1 == IF i.tag = "impl" /\ is_valid(i.fd) THEN SysClose(w, i.fd) ELSE w
  IN IF i.tag = "impl" THEN FdDestroy(w1, i.fd) ELSE w1

Destroy(s) ==
  /\ LET w == DestroyImpl(World(kfd), impl[s])
     IN /\ impl' = [impl EXCEPT ![s] = NoSocket]
        /\ Commit(w)
        /\ last' = Called("destroy", s, "ok", "none", w)

(* ------------------------------------------------------------------- moves *)
\* Socket(Socket &&) = default into the empty slot t: the unique_ptr moves.
Move(s, t) ==
  /\ EmptySlot(t)
  /\ impl' = [impl EXCEPT ![t] = impl[s], ![s] = NullImpl]
  /\ UNCHANGED kfd
  /\ Tick
  /\ last' = Called("move", s, "ok", "none", World(kfd))

\* Socket::operator=(Socket &&) = default: t = std::move(s). The Impl that t
\* held is deleted (Impl's destructor, so its fd's), ~Socket does not run.
MoveAssign(s, t) ==
  /\ s # t
  /\ LET w == IF impl[t].tag = "impl"
              THEN FdDestroy(World(kfd), impl[t].fd)
              ELSE World(kfd)
     IN /\ impl' = [impl EXCEPT ![t] = impl[s], ![s] = NullImpl]
        /\ Commit(w)
        /\ last' = Called("assign", t, "ok", "none", w)

(* ------------------------------------------------- bind / listen / connect *)
\* The outcome of an operation on Impl i: result, error code, world and Impl
\* after it, and the count n and bytes val it returns (Outcome: neither).
Returned(res, err, w, i, n, val) ==
  [res |-> res, err |-> err, w |-> w, impl |-> i, n |-> n, val |-> val]

Outcome(res, err, w, i) == Returned(res, err, w, i, 0, <<>>)

\* Socket::bind with a success that also empties the last-error slot.
BindImpl_ClearsError(w, i, ok) ==
  LET r == SysBind(w, i.fd, ok)
  IN IF r.ret # 0
     THEN Outcome("fail", r.err, r.w, [i EXCEPT !.last_error = r.err])
     ELSE Outcome("ok", "none", r.w,
                  [i EXCEPT !.state = "Bind", !.last_error = "none"])

\* Socket::bind that records Bind even when the OS refuses the call.
BindImpl_BoundOnFailure(w, i, ok) ==
  LET r == SysBind(w, i.fd, ok)
  IN IF r.ret # 0
     THEN Outcome("fail", r.err, r.w,
                  [i EXCEPT !.state = "Bind", !.last_error = r.err])
     ELSE Outcome("ok", "none", r.w, [i EXCEPT !.state = "Bind"])

\* Socket::bind
BindImpl(w, i, ok) ==
  LET r == SysBind(w, i.fd, ok)
  IN IF r.ret # 0
     THEN Outcome("fail", r.err, r.w, [i EXCEPT !.last_error = r.err])
     ELSE Outcome("ok", "none", r.w, [i EXCEPT !.state = "Bind"])

\* Socket::listen without the transport check.
ListenImpl_NoTypeCheck(w, i, ok) ==
  LET r == SysListen(w, i.fd, ok)
  IN IF r.ret # 0
     THEN Outcome("fail", r.err, r.w, [i EXCEPT !.last_error = r.err])
     ELSE Outcome("ok", "none", r.w, [i EXCEPT !.state = "Listen"])

\* Socket::listen
ListenImpl(w, i, ok) ==
  IF i.type # "TCP"
  THEN Outcome("fail", "EOPNOTSUPP", w, [i EXCEPT !.last_error = "EOPNOTSUPP"])
  ELSE LET r == SysListen(w, i.fd, ok)
       IN IF r.ret # 0
          THEN Outcome("fail", r.err, r.w, [i EXCEPT !.last_error = r.err])
          ELSE Outcome("ok", "none", r.w, [i EXCEPT !.state = "Listen"])

\* Socket::connect
ConnectImpl(w, i, ok) ==
  LET r == SysConnect(w, i.fd, ok)
  IN IF r.ret < 0
     THEN Outcome("fail", r.err, r.w, [i EXCEPT !.last_error = r.err])
     ELSE Outcome("ok", "none", r.w, [i EXCEPT !.state = "Connect"])

\* Socket::shutdown(read, write): returns the error code, or none.
ShutdownImpl(w, i, rd, wr, ok) ==
  IF i.tag # "impl" \/ ~is_valid(i.fd)
  THEN Outcome("fail", "EBADF", w, i)
  ELSE IF ~rd /\ ~wr
  THEN Outcome("fail", "EINVAL", w, i)
  ELSE LET r == SysShutdown(w, i.fd, ok)
       IN IF r.ret # 0
          THEN Outcome("fail", r.err, r.w, i)
          ELSE Outcome("ok", "none", r.w, i)

\* A call of op on slot s whose outcome is o.
Apply(op, s, o) ==
  /\ impl' = [impl EXCEPT ![s] =
               [o.impl EXCEPT !.listened = @ \/ (op = "listen" /\ o.res = "ok")]]
  /\ Commit(o.w)
  /\ last' = [Called(op, s, o.res, o.err, o.w) EXCEPT !.n = o.n, !.val = o.val]

Bind(s, ok) == Apply("bind", s, BindImpl(World(kfd), impl[s], ok))

Listen(s, ok) == Apply("listen", s, ListenImpl(World(kfd), impl[s], ok))

Connect(s, ok) == Apply("connect", s, ConnectImpl(World(kfd), impl[s], ok))

Shutdown(s, rd, wr, ok) ==
  Apply("shutdown", s, ShutdownImpl(World(kfd), impl[s], rd, wr, ok))

(* ---------------------------------------------------------- send / receive *)
\* Byte streams of at most n bytes.
Streams(n) == UNION {[1..m -> Byte] : m \in 0..n}

\* StreamsUpTo[m]: the streams a call with max_length m can be handed.
StreamsUpTo == [m \in 0..MaxLen |-> Streams(m)]

\* Delimiters handed to recv_until.
Delims == {<<"\n">>, <<"a", "\n">>}

\* Whether the kernel would let data flow on the descriptor of slot s; when it
\* would not, no byte is read and the peer's stream is immaterial.
Flows(s) == Open(kfd, impl[s].fd) /\ kfd[impl[s].fd] = "connected"

\* Socket::send of n bytes, of which the kernel takes cnt.
SendImpl(w, i, n, ok, cnt) ==
  LET r == SysSend(w, i.fd, ok, cnt)
  IN IF r.ret < 0
     THEN Outcome("fail", r.err, r.w, [i EXCEPT !.last_error = r.err])
     ELSE Returned("ok", "none", r.w, i, r.ret, <<>>)

\* Socket::recv into a buffer of n bytes, of which the kernel fills cnt.
RecvImpl(w, i, n, ok, cnt) ==
  LET r == SysRecv(w, i.fd, ok, cnt)
  IN IF r.ret < 0
     THEN Outcome("fail", r.err, r.w, [i EXCEPT !.last_error = r.err])
     ELSE Returned("ok", "none", r.w, i, r.ret, <<>>)

\* Socket::recv_string(max_length): data is what the kernel delivers.
RecvStringImpl(w, i, max_length, ok, data) ==
  LET r == SysRecv(w, i.fd, ok, Len(data))
  IN IF r.ret < 0
     THEN Outcome("fail", r.err, r.w, [i EXCEPT !.last_error = r.err])
     ELSE Returned("ok", "none", r.w, i, 0, SubSeq(data, 1, r.ret))

\* The loop of Socket::recv_line from iteration idx on: stream is what the peer
\* sends before closing, failAt the ::recv call (counted from 1) that fails.
RECURSIVE recv_line_loop(_, _, _, _, _, _, _)
recv_line_loop(w, i, idx, max_length, stream, failAt, result) ==
  IF idx >= max_length
  THEN Returned("ok", "none", w, i, 0, result)
  ELSE LET r == SysRecv(w, i.fd, failAt # idx + 1,
                        IF idx < Len(stream) THEN 1 ELSE 0)
       IN IF r.ret < 0
          THEN Outcome("fail", r.err, r.w, [i EXCEPT !.last_error = r.err])
          ELSE IF r.ret = 0
          THEN Returned("ok", "none", r.w, i, 0, result)
          ELSE LET cur == stream[idx + 1]
               IN IF cur = "\n"
                  THEN Returned("ok", "none", r.w, i, 0, Append(result, cur))
                  ELSE recv_line_loop(r.w, i, idx + 1, max_length, stream,
                                      failAt, Append(result, cur))

\* Socket::recv_line whose loop runs once more than max_length allows.
RecvLineImpl_OneMore(w, i, max_length, stream, failAt) ==
  recv_line_loop(w, i, 0, max_length + 1, stream, failAt, <<>>)

\* Socket::recv_line
RecvLineImpl(w, i, max_length, stream, failAt) ==
  recv_line_loop(w, i, 0, max_length, stream, failAt, <<>>)

\* result.size() >= delim.size() && result.substr(size - delim.size()) == delim
EndsWith(result, delim) ==
  /\ Len(result) >= Len(delim)
  /\ SubSeq(result, Len(result) - Len(delim) + 1, Len(result)) = delim

\* The loop of Socket::recv_until from iteration idx on.
RECURSIVE recv_until_loop(_, _, _, _, _, _, _, _)
recv_until_loop(w, i, idx, delim, max_length, stream, failAt, result) ==
  IF idx >= max_length
  THEN Returned("ok", "none", w, i, 0, result)
  ELSE LET r == SysRecv(w, i.fd, failAt # idx + 1,
                        IF idx < Len(stream) THEN 1 ELSE 0)
       IN IF r.ret < 0
          THEN Outcome("fail", r.err, r.w, [i EXCEPT !.last_error = r.err])
          ELSE IF r.ret = 0
          THEN Returned("ok", "none", r.w, i, 0, result)
          ELSE LET cur == stream[idx + 1]
               IN IF EndsWith(Append(result, cur), delim)
                  THEN Returned("ok", "none", r.w, i, 0, Append(result, cur))
                  ELSE recv_until_loop(r.w, i, idx + 1, delim, max_length,
                                       stream, failAt, Append(result, cur))

\* Socket::recv_until that stops at the first line feed, whatever delim is.
RecvUntilImpl_AsLine(w, i, delim, max_length, stream, failAt) ==
  recv_line_loop(w, i, 0, max_length, stream, failAt, <<>>)

\* Socket::recv_until
RecvUntilImpl(w, i, delim, max_length, stream, failAt) ==
  recv_until_loop(w, i, 0, delim, max_length, stream, failAt, <<>>)

\* The inputs of the transfer operations are what the kernel does with them.
\* A byte past max_length is never asked for and a ::recv call past max_length
\* never made, so streams and failure points beyond it repeat shorter ones;
\* and when the kernel refuses the call, the sizes and the stream are never
\* looked at, so one value stands for all.
Sizes(s, ok) == IF Flows(s) /\ ok THEN 0..MaxLen ELSE {0}
Counts(n) == IF n = 0 THEN {0} ELSE 1..n
PeerStreams(s, m) == IF Flows(s) THEN StreamsUpTo[m] ELSE {<<>>}
FailPoints(s, m) == IF Flows(s) THEN 0..m ELSE {0}

Send(s, n, ok, cnt) ==
  Apply("send", s, SendImpl(World(kfd), impl[s], n, ok, cnt))

Recv(s, n, ok, cnt) ==
  Apply("recv", s, RecvImpl(World(kfd), impl[s], n, ok, cnt))

RecvString(s, max_length, ok, data) ==
  Apply("recv_string", s,
        RecvStringImpl(World(kfd), impl[s], max_length, ok, data))

RecvLine(s, max_length, stream, failAt) ==
  Apply("recv_line", s,
        RecvLineImpl(World(kfd), impl[s], max_length, stream, failAt))

RecvUntil(s, delim, max_length, stream, failAt) ==
  Apply("recv_until", s,
        RecvUntilImpl(World(kfd), impl[s], delim, max_length, stream, failAt))

(* ------------------------------------------------------------------ accept *)
\* Socket::accept whose client keeps the descriptor of its own ::socket call
\* instead of adopting the accepted one.
AcceptImpl_NoAdopt(w, i, okA, okS, peer) ==
  IF i.state # "Listen"
  THEN [res |-> "fail", err |-> "EINVAL", w |-> w,
        impl |-> [i EXCEPT !.last_error = "EINVAL"],
        client |-> NoSocket, addr |-> "none"]
  ELSE LET r == SysAccept(w, i.fd, okA)
       IN IF r.ret < 0
          THEN [res |-> "fail", err |-> r.err, w |-> r.w,
                impl |-> [i EXCEPT !.last_error = r.err],
                client |-> NoSocket, addr |-> "none"]
          ELSE LET c == SocketCtor(r.w, i.type, CHOOSE st \in State : TRUE, okS)
               IN IF c.thrown
                  THEN [res |-> "throw", err |-> "none", w |-> c.w, impl |-> i,
                        client |-> NoSocket, addr |-> "none"]
                  ELSE [res |-> "ok", err |-> "none", w |-> c.w, impl |-> i,
                        client |-> [c.impl EXCEPT !.state = "Connect"],
                        addr |-> peer]

\* Socket::accept on Impl i. okA, okS: the kernel's willingness for ::accept
\* and for the ::socket call of the client's constructor; peer: the address
\* ::accept fills in. The client's uninitialized state is overwritten before
\* anything reads it, so one value stands for all.
AcceptImpl(w, i, okA, okS, peer) ==
  IF i.state # "Listen"
  THEN [res |-> "fail", err |-> "EINVAL", w |-> w,
        impl |-> [i EXCEPT !.last_error = "EINVAL"],
        client |-> NoSocket, addr |-> "none"]
  ELSE LET r == SysAccept(w, i.fd, okA)
       IN IF r.ret < 0
          THEN [res |-> "fail", err |-> r.err, w |-> r.w,
                impl |-> [i EXCEPT !.last_error = r.err],
                client |-> NoSocket, addr |-> "none"]
          ELSE LET c == SocketCtor(r.w, i.type, CHOOSE st \in State : TRUE, okS)
               IN IF c.thrown
                  THEN [res |-> "throw", err |-> "none", w |-> c.w, impl |-> i,
                        client |-> NoSocket, addr |-> "none"]
                  ELSE LET f == FdReset(c.w, c.impl.fd, r.ret)
                       IN [res |-> "ok", err |-> "none", w |-> f.w, impl |-> i,
                           client |-> [c.impl EXCEPT !.fd = f.fd,
                                                     !.state = "Connect"],
                           addr |-> peer]

\* accept() on slot s; the Socket of the returned pair lands in the empty
\* slot t (the local client is moved from, and destroyed with a null _impl).
Accept(s, t, okA, okS, peer) ==
  /\ EmptySlot(t)
  /\ LET a == AcceptImpl(World(kfd), impl[s], okA, okS, peer)
         w == DestroyImpl(a.w, NullImpl)
     IN /\ impl' = [impl EXCEPT ![s] = a.impl, ![t] = a.client]
        /\ Commit(w)
        /\ last' = [Called("accept", s, a.res, a.err, w) EXCEPT
                      !.t = IF a.res = "ok" THEN t ELSE 0,
                      !.peer = IF a.res = "ok" THEN peer ELSE "none",
                      !.addr = a.addr]

(* -------------------------------------------------------------------- Next *)
\* The program goes on while it has operations left to perform.
Running == ops < MaxOps

Next ==
  \/ Running /\ \E s \in Empty, t \in Type, st \in State, ok \in BOOLEAN :
       Create(s, t, st, ok)
  \/ Running /\ \E s \in Sockets, ok \in BOOLEAN : Bind(s, ok)
  \/ Running /\ \E s \in Sockets, ok \in BOOLEAN : Listen(s, ok)
  \/ Running /\ \E s \in Sockets, ok \in BOOLEAN : Connect(s, ok)
  \/ Running /\ \E s \in Sockets, t \in Empty, okA, okS \in BOOLEAN,
                   peer \in Peers :
       Accept(s, t, okA, okS, peer)
  \/ Running /\ \E s \in Sockets, ok \in BOOLEAN :
       \E n \in Sizes(s, ok) : \E cnt \in Counts(n) : Send(s, n, ok, cnt)
  \/ Running /\ \E s \in Sockets, ok \in BOOLEAN :
       \E n \in Sizes(s, ok) : \E cnt \in 0..n : Recv(s, n, ok, cnt)
  \/ Running /\ \E s \in Sockets, ok \in BOOLEAN :
       \E m \in Sizes(s, ok) : \E data \in PeerStreams(s, m) :
         RecvString(s, m, ok, data)
  \/ Running /\ \E s \in Sockets, m \in 0..MaxLen :
       \E stream \in PeerStreams(s, m), failAt \in FailPoints(s, m) :
         RecvLine(s, m, stream, failAt)
  \/ Running /\ \E s \in Sockets, delim \in Delims, m \in 0..MaxLen :
       \E stream \in PeerStreams(s, m), failAt \in FailPoints(s, m) :
         RecvUntil(s, delim, m, stream, failAt)
  \/ Running /\ \E s \in Objects, rd, wr, ok \in BOOLEAN :
       Shutdown(s, rd, wr, ok)
  \/ Running /\ \E s \in Objects : Close(s)
  \/ Running /\ \E s \in Objects, t \in Empty : Move(s, t)
  \/ Running /\ \E s, t \in Objects : MoveAssign(s, t)
  \/ Running /\ \E s \in Objects : Destroy(s)

Spec == Init /\ [][Next]_vars
(* ================================================================ Endpoint *)
\* Text is a sequence of one-character strings.
DigitChars == <<"0", "1", "2", "3", "4", "5", "6", "7", "8", "9">>

IsDigit(c) == \E d \in 1..Len(DigitChars) : DigitChars[d] = c

DigitVal(c) == (CHOOSE d \in 1..Len(DigitChars) : DigitChars[d] = c) - 1

\* The decimal text of n, as inet_ntop and std::format("{}", n) write it.
RECURSIVE ToDigits(_)
ToDigits(n) ==
  IF n < 10 THEN <<DigitChars[n + 1]>>
  ELSE Append(ToDigits(n \div 10), DigitChars[(n % 10) + 1])

\* The value of a run of decimal digits.
RECURSIVE FromDigits(_)
FromDigits(t) ==
  IF t = <<>> THEN 0
  ELSE 10 * FromDigits(SubSeq(t, 1, Len(t) - 1)) + DigitVal(t[Len(t)])

\* The pieces of text t between the occurrences of the character sep.
RECURSIVE SplitOn(_, _)
SplitOn(t, sep) ==
  IF \A j \in 1..Len(t) : t[j] # sep THEN <<t>>
  ELSE LET j == CHOOSE k \in 1..Len(t) :
                  t[k] = sep /\ \A m \in 1..(k - 1) : t[m] # sep
       IN <<SubSeq(t, 1, j - 1)>> \o SplitOn(SubSeq(t, j + 1, Len(t)), sep)

\* One octet of a dotted-decimal address as inet_pton(AF_INET) accepts it:
\* one to three digits, no leading zero, at most 255.
IsOctetText(t) ==
  /\ Len(t) \in 1..3
  /\ \A j \in 1..Len(t) : IsDigit(t[j])
  /\ (Len(t) > 1 => t[1] # "0")
  /\ FromDigits(t) <= 255

\* inet_pton(AF_INET, ip, &sin_addr): ret 1 and the four octets, or ret 0.
inet_pton(ip) ==
  LET parts == SplitOn(ip, ".")
  IN IF Len(parts) = 4 /\ \A j \in 1..4 : IsOctetText(parts[j])
     THEN [ret |-> 1, s_addr |-> [j \in 1..4 |-> FromDigits(parts[j])]]
     ELSE [ret |-> 0, s_addr |-> <<0, 0, 0, 0>>]

\* inet_ntop(AF_INET, &sin_addr, buf, size): the dotted-decimal text.
inet_ntop(s_addr) ==
  ToDigits(s_addr[1]) \o <<".">> \o ToDigits(s_addr[2]) \o <<".">>
    \o ToDigits(s_addr[3]) \o <<".">> \o ToDigits(s_addr[4])

\* htons / ntohs on a little-endian host: the two bytes of a 16-bit value
\* swapped.
htons(p) == (p % 256) * 256 + (p \div 256)
ntohs(n) == (n % 256) * 256 + (n \div 256)

\* INET_ADDRSTRLEN, the size of the buffer SocketAddr::ip() formats into.
INET_ADDRSTRLEN == 16

\* SocketAddr::SocketAddr(ip, port): the sockaddr_in built, or the fault.
SocketAddrCtor(ip, port) ==
  LET r == inet_pton(ip)
  IN [thrown |-> r.ret # 1, sin_family |-> "AF_INET",
      sin_port |-> htons(port), s_addr |-> r.s_addr]

\* SocketAddr::port
SocketAddr_port(a) == ntohs(a.sin_port)

\* SocketAddr::ip: std::string(buf.data(), buf.size()) of a buffer that
\* inet_ntop filled with the text and its terminator; the bytes after the
\* terminator were never written and read as fill.
SocketAddr_ip(a, fill) ==
  LET text == inet_ntop(a.s_addr)
  IN text \o <<"NUL">>
       \o [j \in 1..(INET_ADDRSTRLEN - Len(text) - 1) |-> fill]

\* SocketAddr::operator==
SocketAddr_eq(a, b) ==
  /\ a.sin_family = b.sin_family
  /\ a.sin_port = a.sin_port
  /\ a.s_addr = b.s_addr

\* The addresses and ports Endpoints are built from: well-formed texts, and
\* texts inet_pton refuses (an octet over 255, three octets, a leading zero).
AddrValues ==
  {<<127, 0, 0, 1>>, <<0, 0, 0, 0>>, <<10, 0, 0, 255>>,
   <<255, 255, 255, 255>>}
GoodIps == {inet_ntop(v) : v \in AddrValues}
BadIps ==
  {<<"2", "5", "6", ".", "0", ".", "0", ".", "1">>,
   <<"1", ".", "2", ".", "3">>,
   <<"0", "1", ".", "0", ".", "0", ".", "1">>}
Ports == {0, 80, 8080, 65535}

\* Bytes an uninitialized char of the buffer may hold.
Fill == {"NUL", "?"}

NoAddr ==
  [thrown |-> TRUE, sin_family |-> "none", sin_port |-> 0,
   s_addr |-> <<0, 0, 0, 0>>]

\* Two (ip, port) pairs from which Endpoints a and b are to be built.
AddrInputs(ipA, portA, ipB, portB) ==
  [op |-> "input", ipA |-> ipA, portA |-> portA, ipB |-> ipB,
   portB |-> portB, a |-> NoAddr, b |-> NoAddr, ip |-> <<>>, port |-> 0,
   eq |-> FALSE]

AddrInit ==
  /\ SockIdle /\ HttpIdle /\ MainIdle
  /\ ep \in {AddrInputs(ipA, portA, ipB, portB) :
               ipA \in GoodIps \cup BadIps, portA \in Ports,
               ipB \in GoodIps \cup BadIps, portB \in Ports}

\* SocketAddr a{ipA, portA}; SocketAddr b{ipB, portB};
AddrConstruct ==
  /\ ep.op = "input"
  /\ LET a == SocketAddrCtor(ep.ipA, ep.portA)
         b == SocketAddrCtor(ep.ipB, ep.portB)
     IN ep' = IF a.thrown \/ b.thrown
              THEN [ep EXCEPT !.op = "thrown"]
              ELSE [ep EXCEPT !.op = "built", !.a = a, !.b = b]
  /\ UNCHANGED <<sockVars, httpVars, mainVars>>

\* a.ip(); a.port();
AddrReadBack(fill) ==
  /\ ep.op = "built"
  /\ ep' = [ep EXCEPT !.op = "read", !.ip = SocketAddr_ip(ep.a, fill),
                      !.port = SocketAddr_port(ep.a)]
  /\ UNCHANGED <<sockVars, httpVars, mainVars>>

\* a == b
AddrCompare ==
  /\ ep.op = "built"
  /\ ep' = [ep EXCEPT !.op = "compared", !.eq = SocketAddr_eq(ep.a, ep.b)]
  /\ UNCHANGED <<sockVars, httpVars, mainVars>>

AddrNext ==
  \/ AddrConstruct
  \/ \E fill \in Fill : AddrReadBack(fill)
  \/ AddrCompare

SpecAddr == AddrInit /\ [][AddrNext]_vars

(* ==================================================================== HTTP *)
\* The texts of the protocol, as sequences of characters.
CRLF == <<"\r", "\n">>
CRLFCRLF == <<"\r", "\n", "\r", "\n">>
GET == <<"G", "E", "T">>
HEAD == <<"H", "E", "A", "D">>
POST == <<"P", "O", "S", "T">>
DotHtml == <<".", "h", "t", "m", "l">>
DotJpg == <<".", "j", "p", "g">>
DotJpeg == <<".", "j", "p", "e", "g">>
SlashFile == <<"/", "f", "i", "l", "e">>
SlashImage == <<"/", "i", "m", "a", "g", "e">>
TextHtml == <<"t", "e", "x", "t", "/", "h", "t", "m", "l">>
ImageJpeg == <<"i", "m", "a", "g", "e", "/", "j", "p", "e", "g">>
OctetStream ==
  <<"a", "p", "p", "l", "i", "c", "a", "t", "i", "o", "n", "/", "o", "c",
    "t", "e", "t", "-", "s", "t", "r", "e", "a", "m">>
Status200 ==
  <<"H", "T", "T", "P", "/", "1", ".", "0", " ", "2", "0", "0", " ", "O",
    "K">>
Status404 ==
  <<"H", "T", "T", "P", "/", "1", ".", "0", " ", "4", "0", "4", " ", "N",
    "o", "t", " ", "F", "o", "u", "n", "d">>
Status400 ==
  <<"H", "T", "T", "P", "/", "1", ".", "0", " ", "4", "0", "0", " ", "B",
    "a", "d", " ", "R", "e", "q", "u", "e", "s", "t">>
ContentLength ==
  <<"C", "o", "n", "t", "e", "n", "t", "-", "L", "e", "n", "g", "t", "h",
    ":", " ">>
ContentType ==
  <<"C", "o", "n", "t", "e", "n", "t", "-", "T", "y", "p", "e", ":", " ">>
ContentTypeNoColon ==
  <<"C", "o", "n", "t", "e", "n", "t", "-", "T", "y", "p", "e", " ", "t",
    "e", "x", "t", "/", "h", "t", "m", "l">>

\* std::string_view::ends_with / starts_with
ends_with(t, suffix) ==
  /\ Len(t) >= Len(suffix)
  /\ SubSeq(t, Len(t) - Len(suffix) + 1, Len(t)) = suffix

starts_with(t, prefix) ==
  Len(t) >= Len(prefix) /\ SubSeq(t, 1, Len(prefix)) = prefix

\* get_content_type
get_content_type(filename) ==
  IF ends_with(filename, DotHtml) THEN TextHtml
  ELSE IF ends_with(filename, DotJpg) \/ ends_with(filename, DotJpeg)
  THEN ImageJpeg
  ELSE OctetStream

\* is_valid_filename: regex_match against
\* ^/(file[0-9]\.html|image[0-9]\.jpg)$
is_valid_filename(filename) ==
  \/ /\ Len(filename) = Len(SlashFile) + 1 + Len(DotHtml)
     /\ starts_with(filename, SlashFile)
     /\ IsDigit(filename[Len(SlashFile) + 1])
     /\ ends_with(filename, DotHtml)
  \/ /\ Len(filename) = Len(SlashImage) + 1 + Len(DotJpg)
     /\ starts_with(filename, SlashImage)
     /\ IsDigit(filename[Len(SlashImage) + 1])
     /\ ends_with(filename, DotJpg)

\* parse_method
parse_method(method) ==
  IF method = GET THEN "GET"
  ELSE IF method = HEAD THEN "HEAD"
  ELSE IF method = POST THEN "POST"
  ELSE "INVALID"

\* The characters operator>> of a stream skips and stops at.
IsSpace(c) == c \in {" ", "\t", "\n", "\r"}

\* The whitespace-separated words of a text, in order: what successive
\* operator>> extractions from an istringstream over it yield.
RECURSIVE Words(_)
Words(t) ==
  IF t = <<>> THEN <<>>
  ELSE IF IsSpace(t[1]) THEN Words(Tail(t))
  ELSE LET stop == IF \E j \in 1..Len(t) : IsSpace(t[j])
                   THEN CHOOSE j \in 1..Len(t) :
                          IsSpace(t[j]) /\ \A m \in 1..(j - 1) : ~IsSpace(t[m])
                   ELSE Len(t) + 1
       IN <<SubSeq(t, 1, stop - 1)>> \o Words(SubSeq(t, stop, Len(t)))

\* std::string::find(needle): the first position (from 1) at which needle
\* occurs in t, 0 for npos.
find(t, needle) ==
  LET at == {j \in 1..(Len(t) - Len(needle) + 1) :
               SubSeq(t, j, j + Len(needle) - 1) = needle}
  IN IF at = {} THEN 0 ELSE CHOOSE j \in at : \A m \in at : j <= m

(* ------------------------------------------------------------- the handler *)
\* The default max_length of recv_until, 4096 in the code, scaled down.
MaxHeader == 40
\* The longest file under data/.
MaxFile == 2

\* What data/<name> can be: no such file; a readable regular file; a regular
\* file that cannot be opened; something whose size cannot be determined
\* although it opens (a directory, or a file created after the size was asked
\* for); a regular file that yields fewer bytes than its size on reading.
FileKinds == {"absent", "regular", "unopenable", "nosize", "shrunk"}

FileContent(n) == [j \in 1..n |-> DigitChars[(j % 10) + 1]]

Files ==
  {[kind |-> k, content |-> <<>>] : k \in {"absent", "unopenable", "nosize"}}
    \cup {[kind |-> "regular", content |-> FileContent(n)] : n \in 0..MaxFile}
    \cup {[kind |-> "shrunk", content |-> FileContent(MaxFile)]}

\* static_cast<uintmax_t>(-1), what file_size returns with an error.
NoSize == -1

\* read_file(fp): the accesses made to the file system, and the content,
\* nullopt, or the fault of constructing a vector of NoSize bytes.
read_file(fs, fp) ==
  LET file == IF fp \in DOMAIN fs THEN fs[fp]
              ELSE [kind |-> "absent", content |-> <<>>]
      fsize == IF file.kind \in {"absent", "nosize"} THEN NoSize
               ELSE Len(file.content)
      probes == <<[call |-> "exists", fp |-> fp],
                  [call |-> "file_size", fp |-> fp],
                  [call |-> "open", fp |-> fp]>>
  IN IF file.kind \in {"absent", "unopenable"}
     THEN [res |-> "nullopt", content |-> <<>>, log |-> probes]
     ELSE IF fsize = NoSize
     THEN [res |-> "throw", content |-> <<>>, log |-> probes]
     ELSE IF file.kind = "shrunk"
     THEN [res |-> "nullopt", content |-> <<>>,
           log |-> Append(probes, [call |-> "read", fp |-> fp])]
     ELSE [res |-> "ok", content |-> file.content,
           log |-> Append(probes, [call |-> "read", fp |-> fp])]

\* The bytes ::recv handed over, in the calls logged in os.
Consumed(os) ==
  Cardinality({j \in 1..Len(os) : os[j].call = "recv" /\ os[j].ret = 1})

\* read_header: recv_until("\r\n\r\n") on the client, then the request line
\* up to the first CRLF split into method, path and version.
read_header(w, i, stream, failAt) ==
  LET r == RecvUntilImpl(w, i, CRLFCRLF, MaxHeader, stream, failAt)
      first_newline == find(r.val, CRLF)
      words == Words(SubSeq(r.val, 1, first_newline - 1))
      parsed == r.res = "ok" /\ first_newline # 0 /\ Len(words) >= 3
  IN [ok |-> parsed, w |-> r.w, impl |-> r.impl,
      data |-> r.val, taken |-> Consumed(r.w.os),
      method |-> IF parsed THEN parse_method(words[1]) ELSE "INVALID",
      path |-> IF parsed THEN words[2] ELSE <<>>,
      http_version |-> IF parsed THEN words[3] ELSE <<>>]

\* The progress of one process_connection call: world and client Impl, the
\* bytes on the wire, the buffers handed to send so far, the file accesses,
\* and whether a fault has left the handler.
Progress(w, i) ==
  [w |-> w, impl |-> i, outb |-> <<>>, sent |-> <<>>, fs |-> <<>>,
   res |-> "done"]

\* What the OS does with the k-th ::send of a connection: takes the whole
\* buffer, or under fault, fails or takes only part of it.
NoFault == [at |-> 0, kind |-> "none"]
SendOk(fault, k) == ~(fault.at = k /\ fault.kind = "fail")
SendCount(fault, k, n) ==
  IF fault.at = k /\ fault.kind = "short" /\ n >= 2 THEN n \div 2 ELSE n

\* socket.send(data) with the result ignored beyond logging, as send_line
\* and send_file use it.
SendBuffer(c, data, fault) ==
  LET k == Len(c.sent) + 1
      r == SendImpl(c.w, c.impl, Len(data), SendOk(fault, k),
                    SendCount(fault, k, Len(data)))
  IN [c EXCEPT !.w = r.w, !.impl = r.impl,
               !.outb = c.outb \o SubSeq(data, 1, r.n),
               !.sent = Append(c.sent, data)]

\* send_line
send_line(c, line, fault) == SendBuffer(c, line \o CRLF, fault)

\* The header lines sent one after the other.
RECURSIVE send_lines(_, _, _)
send_lines(c, lines, fault) ==
  IF lines = <<>> THEN c
  ELSE send_lines(send_line(c, Head(lines), fault), Tail(lines), fault)

\* send404 / send400
send404(c, fault) ==
  send_lines(c, <<Status404, ContentLength \o ToDigits(0),
                  ContentTypeNoColon, <<>> >>, fault)

send400(c, fault) ==
  send_lines(c, <<Status400, ContentLength \o ToDigits(0),
                  ContentTypeNoColon, <<>> >>, fault)

\* send_file that announces an empty body when the body is left out.
send_file_HeadNoLength(c, fs, filename, include_body, fault) ==
  LET parsed_fname == IF starts_with(filename, <<"/">>) THEN Tail(filename)
                      ELSE filename
      fcontent == read_file(fs, parsed_fname)
      seen == [c EXCEPT !.fs = c.fs \o fcontent.log]
      announced == IF include_body THEN Len(fcontent.content) ELSE 0
  IN IF fcontent.res = "throw" THEN [seen EXCEPT !.res = "throw"]
     ELSE IF fcontent.res = "nullopt" THEN send404(seen, fault)
     ELSE LET head ==
                send_lines(seen,
                           <<Status200,
                             ContentLength \o ToDigits(announced),
                             ContentType \o get_content_type(filename),
                             <<>> >>, fault)
          IN IF include_body /\ fcontent.content # <<>>
             THEN SendBuffer(head, fcontent.content, fault)
             ELSE head

\* send_file: the file data/<filename without its leading slash> read and
\* sent after its header, or a 404 when read_file gives nullopt. A fault in
\* read_file leaves send_file with nothing sent.
send_file(c, fs, filename, include_body, fault) ==
  LET parsed_fname == IF starts_with(filename, <<"/">>) THEN Tail(filename)
                      ELSE filename
      fcontent == read_file(fs, parsed_fname)
      seen == [c EXCEPT !.fs = c.fs \o fcontent.log]
  IN IF fcontent.res = "throw" THEN [seen EXCEPT !.res = "throw"]
     ELSE IF fcontent.res = "nullopt" THEN send404(seen, fault)
     ELSE LET head ==
                send_lines(seen,
                           <<Status200,
                             ContentLength \o ToDigits(Len(fcontent.content)),
                             ContentType \o get_content_type(filename),
                             <<>> >>, fault)
          IN IF include_body /\ fcontent.content # <<>>
             THEN SendBuffer(head, fcontent.content, fault)
             ELSE head

\* process_connection that looks at the method before the file name.
process_connection_MethodFirst(w, i, fs, stream, fault, failAt) ==
  LET request == read_header(w, i, stream, failAt)
      c == Progress(request.w, request.impl)
      end == IF ~request.ok THEN send400(c, fault)
             ELSE IF request.method = "GET"
             THEN send_file(c, fs, request.path, TRUE, fault)
             ELSE IF request.method = "HEAD"
             THEN send_file(c, fs, request.path, FALSE, fault)
             ELSE IF ~is_valid_filename(request.path) THEN send404(c, fault)
             ELSE send400(c, fault)
  IN [end |-> end, request |-> request,
      rest |-> SubSeq(stream, request.taken + 1, Len(stream))]

\* process_connection that serves the file to every method but HEAD.
process_connection_PostServes(w, i, fs, stream, fault, failAt) ==
  LET request == read_header(w, i, stream, failAt)
      c == Progress(request.w, request.impl)
      end == IF ~request.ok THEN send400(c, fault)
             ELSE IF ~is_valid_filename(request.path) THEN send404(c, fault)
             ELSE IF request.method = "HEAD"
             THEN send_file(c, fs, request.path, FALSE, fault)
             ELSE send_file(c, fs, request.path, TRUE, fault)
  IN [end |-> end, request |-> request,
      rest |-> SubSeq(stream, request.taken + 1, Len(stream))]

\* process_connection on a client whose peer sent stream: the Progress at its
\* end, the request data read_header received and the bytes left unread.
process_connection(w, i, fs, stream, fault, failAt) ==
  LET request == read_header(w, i, stream, failAt)
      c == Progress(request.w, request.impl)
      end == IF ~request.ok THEN send400(c, fault)
             ELSE IF ~is_valid_filename(request.path) THEN send404(c, fault)
             ELSE IF request.method = "GET"
             THEN send_file(c, fs, request.path, TRUE, fault)
             ELSE IF request.method = "HEAD"
             THEN send_file(c, fs, request.path, FALSE, fault)
             ELSE send400(c, fault)
  IN [end |-> end, request |-> request,
      rest |-> SubSeq(stream, request.taken + 1, Len(stream))]

(* ----------------------------------------------------- the served connection *)
\* What the peer sends: request lines of two, three and four words over the
\* methods and paths below, ended by nothing, one CRLF, the blank line, a
\* header and the blank line, or a header block longer than MaxHeader; and
\* every short text over CR, LF and a letter.
Methods == {GET, HEAD, POST, <<"P", "U", "T">>}
Paths ==
  {<<"/", "f", "i", "l", "e", "1", ".", "h", "t", "m", "l">>,
   <<"/", "i", "m", "a", "g", "e", "1", ".", "j", "p", "g">>,
   <<"/", "n", "o", "p", "e", ".", "h", "t", "m", "l">>}
Version == <<"H", "T", "T", "P", "/", "1", ".", "0">>
Garbage == <<"G", "A", "R", "B", "A", "G", "E">>
Extra == <<"x">>
HeaderLine == <<"H", ":", " ", "v">>
Padding == [j \in 1..MaxHeader |-> "p"]

RequestLines ==
  {m \o <<" ">> \o p : m \in Methods, p \in Paths}
    \cup {m \o <<" ">> \o p \o <<" ">> \o Version :
            m \in Methods, p \in Paths}
    \cup {m \o <<" ">> \o p \o <<" ">> \o Version \o <<" ">> \o Extra :
            m \in Methods, p \in Paths}

Endings ==
  {<<>>, CRLF, CRLFCRLF, CRLFCRLF \o Garbage,
   CRLF \o HeaderLine \o CRLFCRLF, CRLF \o Padding \o CRLFCRLF}

MaxShort == 4
ShortTexts == UNION {[1..n -> {"\r", "\n", "a"}] : n \in 0..MaxShort}

Requests == {l \o e : l \in RequestLines, e \in Endings}

\* The files the requests can name.
FileNames == {Tail(p) : p \in Paths}

\* The accepted client Socket: connected, on descriptor 0.
Client == 1
ClientFd == 0
ClientImpl == [NewImpl("TCP", "Connect") EXCEPT !.fd = ClientFd]

\* The fields of http: the call made, the stream it found, its inputs, and
\* what it did.
HttpCall(op, stream) ==
  [op |-> op, stream |-> stream, res |-> "none", val |-> <<>>,
   sent |-> <<>>, fs |-> <<>>, delim |-> <<>>, max_length |-> 0,
   fault |-> NoFault, failAt |-> 0, parsed |-> FALSE, method |-> "INVALID",
   path |-> <<>>]

\* A client has been accepted, its peer has sent its bytes and closed its
\* write side; every file of data/ is of one kind (with a short text, which
\* names no file, of the kind absent).
HttpInit ==
  /\ impl = [s \in SockIds |-> IF s = Client THEN ClientImpl ELSE NoSocket]
  /\ kfd = [d \in Fds |-> IF d = ClientFd THEN "connected" ELSE "free"]
  /\ last = Called("none", 0, "ok", "none", World(kfd))
  /\ ops = 0
  /\ \/ /\ inb \in Requests
        /\ fsys \in {[f \in FileNames |-> file] : file \in Files}
     \/ /\ inb \in ShortTexts
        /\ fsys = [f \in FileNames |-> [kind |-> "absent", content |-> <<>>]]
  /\ outb = <<>>
  /\ http = HttpCall("request", inb)
  /\ AddrIdle /\ MainIdle

\* The faults of the OS during one connection: one of the at most MaxSends
\* ::send calls fails or comes up short, or one ::recv call fails (0: none).
MaxSends == 5
SendFaults ==
  {NoFault} \cup
  {[at |-> k, kind |-> x] : k \in 1..MaxSends, x \in {"fail", "short"}}
RecvFaults == {0, 2}
Faults ==
  {<<fault, 0>> : fault \in SendFaults}
    \cup {<<NoFault, failAt>> : failAt \in RecvFaults}

\* process_connection(client, client_addr)
ProcessConnection(fault, failAt) ==
  /\ http.op = "request"
  /\ \E r \in {process_connection(World(kfd), impl[Client], fsys, inb,
                                    fault, failAt)} :
        /\ impl' = [impl EXCEPT ![Client] = r.end.impl]
        /\ kfd' = r.end.w.k
        /\ inb' = r.rest
        /\ outb' = outb \o r.end.outb
        /\ http' = [HttpCall("process", inb) EXCEPT
                      !.res = r.end.res, !.val = r.request.data,
                      !.sent = r.end.sent, !.fs = r.end.fs,
                      !.delim = CRLFCRLF, !.max_length = MaxHeader,
                      !.fault = fault, !.failAt = failAt,
                      !.parsed = r.request.ok, !.method = r.request.method,
                      !.path = r.request.path]
  /\ UNCHANGED <<last, ops, fsys, addrVars, mainVars>>

\* client.recv_until(delim, max_length)
HttpRecvUntil(delim, max_length, failAt) ==
  /\ http.op = "request"
  /\ \E r \in {RecvUntilImpl(World(kfd), impl[Client], delim, max_length,
                               inb, failAt)} :
        /\ impl' = [impl EXCEPT ![Client] = r.impl]
        /\ kfd' = r.w.k
        /\ inb' = SubSeq(inb, Consumed(r.w.os) + 1, Len(inb))
        /\ http' = [HttpCall("recv_until", inb) EXCEPT
                      !.res = r.res, !.val = r.val, !.delim = delim,
                      !.max_length = max_length, !.failAt = failAt]
  /\ UNCHANGED <<last, ops, outb, fsys, addrVars, mainVars>>

\* client.recv_line(max_length)
HttpRecvLine(max_length, failAt) ==
  /\ http.op = "request"
  /\ \E r \in {RecvLineImpl(World(kfd), impl[Client], max_length, inb,
                              failAt)} :
        /\ impl' = [impl EXCEPT ![Client] = r.impl]
        /\ kfd' = r.w.k
        /\ inb' = SubSeq(inb, Consumed(r.w.os) + 1, Len(inb))
        /\ http' = [HttpCall("recv_line", inb) EXCEPT
                      !.res = r.res, !.val = r.val,
                      !.max_length = max_length, !.failAt = failAt]
  /\ UNCHANGED <<last, ops, outb, fsys, addrVars, mainVars>>

\* client.recv_string(max_length) after the header has been received, with
\* bytes still unread: the kernel hands over cnt of them, at least one.
HttpNextRead(max_length, cnt) ==
  /\ http.op \in {"recv_until", "process"}
  /\ inb # <<>>
  /\ cnt \in 1..max_length /\ cnt <= Len(inb)
  /\ \E r \in {RecvStringImpl(World(kfd), impl[Client], max_length, TRUE,
                                SubSeq(inb, 1, cnt))} :
        /\ impl' = [impl EXCEPT ![Client] = r.impl]
        /\ kfd' = r.w.k
        /\ inb' = SubSeq(inb, Len(r.val) + 1, Len(inb))
        /\ http' = [HttpCall("next_read", inb) EXCEPT
                      !.res = r.res, !.val = r.val,
                      !.max_length = max_length]
  /\ UNCHANGED <<last, ops, outb, fsys, addrVars, mainVars>>

HttpNext ==
  \/ \E f \in Faults : ProcessConnection(f[1], f[2])
  \/ \E delim \in {CRLFCRLF, CRLF, <<"\n">>},
        max_length \in {MaxShort - 2, MaxShort, MaxHeader},
        failAt \in RecvFaults :
       HttpRecvUntil(delim, max_length, failAt)
  \/ \E max_length \in {MaxShort - 2, MaxShort, MaxHeader},
          failAt \in RecvFaults :
       HttpRecvLine(max_length, failAt)
  \/ \E cnt \in {1, Len(inb)} : HttpNextRead(MaxHeader, cnt)

SpecHttp == HttpInit /\ [][HttpNext]_vars

(* ------------------------------------------------------------------- main *)
\* The slot of server_socket; the accepted client_socket lives in slot Client.
Server == 2

\* Where main is: before its set-up ("start"), at the loop condition
\* ("test"), in accept(), in process_connection, at client_socket.close(),
\* at the end of the loop body, past the loop ("shutdown"), returned
\* ("exited") or ended by a fault nothing caught ("terminated").
LoopPcs == {"test", "accept", "process", "close", "end"}

\* The fields of srv: pc; flag, the value of shutdown_requested; code, the
\* value main returned; after, the connections accepted since the flag was
\* set; served, whether a connection has gone through the loop body; fault,
\* whether the handler of the last connection raised a fault; how, the
\* argument of the ::shutdown call made on the listening socket.
NoCode == 1
MainStarts ==
  [pc |-> "start", flag |-> FALSE, code |-> NoCode, after |-> 0,
   served |-> FALSE, fault |-> FALSE, how |-> "none"]

MainInit == SockIdle /\ HttpIdle /\ AddrIdle /\ srv = MainStarts

\* how, as Socket::shutdown computes it from its two flags.
ShutdownHow(rd, wr) ==
  IF rd /\ wr THEN "SHUT_RDWR"
  ELSE IF rd THEN "SHUT_RD"
  ELSE IF wr THEN "SHUT_WR"
  ELSE "none"

\* sig_handler: SIGINT or SIGTERM arrives while main runs.
Signal ==
  /\ srv.pc \in LoopPcs \cup {"start", "shutdown"}
  /\ ~srv.flag
  /\ srv' = [srv EXCEPT !.flag = TRUE]
  /\ UNCHANGED <<sockVars, httpVars, addrVars>>

\* main up to the loop: create_bind on the port found, then listen; either
\* failing makes main return -1, destroying the Socket it had. The state the
\* constructor leaves unset is written by bind before anything reads it.
MainStart(okS, okB, okL) ==
  /\ srv.pc = "start"
  /\ LET c == SocketCtor(World(kfd), "TCP", CHOOSE st \in State : TRUE, okS)
         b == BindImpl(c.w, c.impl, okB)
         l == ListenImpl(b.w, b.impl, okL)
         up == ~c.thrown /\ b.res = "ok" /\ l.res = "ok"
         w == IF c.thrown THEN c.w
              ELSE IF b.res # "ok" THEN DestroyImpl(b.w, b.impl)
              ELSE IF l.res # "ok" THEN DestroyImpl(l.w, l.impl)
              ELSE l.w
     IN /\ impl' = IF up
                   THEN [impl EXCEPT ![Server] =
                           [l.impl EXCEPT !.listened = TRUE]]
                   ELSE impl
        /\ kfd' = w.k
        /\ last' = Called("start", Server, IF up THEN "ok" ELSE "fail",
                          "none", w)
        /\ srv' = IF up THEN [srv EXCEPT !.pc = "test"]
                  ELSE [srv EXCEPT !.pc = "exited", !.code = -1]
  /\ UNCHANGED <<ops, httpVars, addrVars>>

\* The loop condition that never sees the flag.
MainTest_NeverStops ==
  /\ srv.pc = "test"
  /\ srv' = [srv EXCEPT !.pc = "accept"]
  /\ UNCHANGED <<sockVars, httpVars, addrVars>>

\* while (!shutdown_requested.load())
MainTest ==
  /\ srv.pc = "test"
  /\ srv' = [srv EXCEPT !.pc = IF srv.flag THEN "shutdown" ELSE "accept"]
  /\ UNCHANGED <<sockVars, httpVars, addrVars>>

\* server_socket->accept() and the test of its result: nullopt continues
\* with the loop condition; a fault raised inside accept is outside the try
\* block and ends the program.
MainAccept(okA, okS, peer) ==
  /\ srv.pc = "accept"
  /\ LET a == AcceptImpl(World(kfd), impl[Server], okA, okS, peer)
         w == DestroyImpl(a.w, NullImpl)
     IN /\ impl' = [impl EXCEPT ![Server] = a.impl, ![Client] = a.client]
        /\ kfd' = w.k
        /\ last' = [Called("accept", Server, a.res, a.err, w) EXCEPT
                      !.t = IF a.res = "ok" THEN Client ELSE 0,
                      !.peer = IF a.res = "ok" THEN peer ELSE "none",
                      !.addr = a.addr]
        /\ srv' = [srv EXCEPT
                     !.pc = IF a.res = "ok" THEN "process"
                            ELSE IF a.res = "fail" THEN "test"
                            ELSE "terminated",
                     !.after = IF a.res = "ok" /\ srv.flag /\ @ < 2
                               THEN @ + 1 ELSE @]
  /\ UNCHANGED <<ops, httpVars, addrVars>>

\* What the peers of the accepted connections send, what data/ holds while
\* they are served, and the faults of the OS meanwhile.
MainStreams ==
  {GET \o <<" ">> \o p \o <<" ">> \o Version \o CRLFCRLF : p \in Paths}
    \cup {<<>>}
MainFiles == {file \in Files : file.kind \in {"regular", "nosize"}}
MainFaults ==
  {<<NoFault, 0>>, <<NoFault, 1>>, <<[at |-> 1, kind |-> "fail"], 0>>}

\* What accept() hands main: the first accept() of a server listening on
\* descriptor 0, with the world it leaves. Every later one hands main the
\* same, the loop body having released what it was given.
FirstAccept ==
  AcceptImpl(World(CHOOSE k \in [Fds -> KState] :
                     \A d \in Fds :
                       k[d] = IF d = 0 THEN "listening" ELSE "free"),
             [NewImpl("TCP", "Listen") EXCEPT !.fd = 0, !.listened = TRUE],
             TRUE, TRUE, "p1")

\* What process_connection leaves main with: how it ended ("done", or
\* "throw" for a fault, which here is a std::length_error) and the last_error
\* of the client. It opens and closes no descriptor.
HandlerOutcomes ==
  {[res |-> r.end.res, last_error |-> r.end.impl.last_error] :
     r \in {process_connection(World(FirstAccept.w.k), FirstAccept.client,
                               [f \in FileNames |-> file], stream,
                               x[1], x[2]) :
              stream \in MainStreams, file \in MainFiles, x \in MainFaults}}

\* The try block in which a fault of the handler is not caught.
MainProcess_FaultSkipsClose(o) ==
  /\ srv.pc = "process"
  /\ impl' = [impl EXCEPT ![Client] =
               [@ EXCEPT !.last_error = o.last_error]]
  /\ last' = Called("process", Client, o.res, "none", World(kfd))
  /\ srv' = [srv EXCEPT !.pc = IF o.res = "throw" THEN "test" ELSE "close",
                        !.fault = (o.res = "throw")]
  /\ UNCHANGED <<kfd, ops, httpVars, addrVars>>

\* try { process_connection(client_socket, client_addr); } catch
\* (const std::exception &): the handler ends as o says; its fault is caught
\* and logged, and main goes on to client_socket.close() either way.
MainProcess(o) ==
  /\ srv.pc = "process"
  /\ impl' = [impl EXCEPT ![Client] =
               [@ EXCEPT !.last_error = o.last_error]]
  /\ last' = Called("process", Client, o.res, "none", World(kfd))
  /\ srv' = [srv EXCEPT !.pc = "close", !.fault = (o.res = "throw")]
  /\ UNCHANGED <<kfd, ops, httpVars, addrVars>>

\* client_socket.close()
MainClose ==
  /\ srv.pc = "close"
  /\ LET c == CloseImpl(World(kfd), impl[Client])
     IN /\ impl' = [impl EXCEPT ![Client] =
                      [c.impl EXCEPT !.closes = IF @ < 2 THEN @ + 1 ELSE @]]
        /\ kfd' = c.w.k
        /\ last' = Called("close", Client, "ok", "none", c.w)
  /\ srv' = [srv EXCEPT !.pc = "end"]
  /\ UNCHANGED <<ops, httpVars, addrVars>>

\* The end of the loop body: connection goes out of scope.
MainEnd ==
  /\ srv.pc = "end"
  /\ LET w == DestroyImpl(World(kfd), impl[Client])
     IN /\ impl' = [impl EXCEPT ![Client] = NoSocket]
        /\ kfd' = w.k
        /\ last' = Called("destroy", Client, "ok", "none", w)
  /\ srv' = [srv EXCEPT !.pc = "test", !.served = TRUE]
  /\ UNCHANGED <<ops, httpVars, addrVars>>

\* server_socket->shutdown() with its result dropped, then return 0, which
\* destroys server_socket.
MainShutdown(ok) ==
  /\ srv.pc = "shutdown"
  /\ LET o == ShutdownImpl(World(kfd), impl[Server], TRUE, TRUE, ok)
         w == DestroyImpl(o.w, o.impl)
     IN /\ impl' = [impl EXCEPT ![Server] = NoSocket]
        /\ kfd' = w.k
        /\ last' = Called("shutdown", Server, o.res, o.err, w)
        /\ srv' = [srv EXCEPT
                     !.pc = "exited", !.code = 0,
                     !.how = IF o.w.os # <<>> THEN ShutdownHow(TRUE, TRUE)
                             ELSE "none"]
  /\ UNCHANGED <<ops, httpVars, addrVars>>

\* The steps of main's own thread.
MainStep ==
  \/ \E okS, okB, okL \in BOOLEAN : MainStart(okS, okB, okL)
  \/ MainTest
  \/ \E okA, okS \in BOOLEAN, peer \in Peers : MainAccept(okA, okS, peer)
  \/ \E o \in HandlerOutcomes : MainProcess(o)
  \/ MainClose
  \/ MainEnd
  \/ \E ok \in BOOLEAN : MainShutdown(ok)

MainNext == MainStep \/ Signal

SpecMain == MainInit /\ [][MainNext]_vars

\* main's thread runs whenever it can: a statement that can be executed is,
\* and the accept() it waits in returns.
SpecMainLive == SpecMain /\ WF_vars(MainStep)

(* ================================================================ claims *)
\* The operations that act on one Socket object and leave it in its slot.
MemberOps ==
  {"bind", "listen", "accept", "connect", "send", "recv", "recv_string",
   "recv_line", "recv_until", "shutdown", "close"}

\* In the step just taken, op was called on the Socket of slot s.
Did(op, s) == last'.op = op /\ last'.s = s /\ HasImpl(s)

\* The OS calls named call in the log os.
OsCalls(os, call) == {j \in 1..Len(os) : os[j].call = call}

\* The lifecycle transitions of the Socket state machine.
Transitions ==
  {<<"Create", "Bind">>, <<"Create", "Connect">>, <<"Bind", "Listen">>,
   <<"Bind", "Connect">>} \cup {<<st, "Close">> : st \in State \ {"Close"}}

\* C1: every change of a Socket's lifecycle state made by one of its
\* operations is Created->Bound, Created->Connected, Bound->Listening,
\* Bound->Connected or non-Closed->Closed; Closed never changes again.
C1_OnlyTransitions ==
  [][\A s \in SockIds :
       (last'.op \in MemberOps /\ last'.s = s /\ HasImpl(s)
          /\ impl'[s].state # impl[s].state)
       => <<impl[s].state, impl'[s].state>> \in Transitions]_vars

\* C2: accept() on a Socket that is not Listening, in particular on one on
\* which no listen() has succeeded, fails with InvalidState (EINVAL) without
\* calling the OS accept and without changing the state.
C2_AcceptNeedsListen ==
  [][\A s \in SockIds :
       (Did("accept", s) /\ (impl[s].state # "Listen" \/ ~impl[s].listened))
       => /\ last'.res = "fail" /\ last'.err = "EINVAL"
          /\ OsCalls(last'.os, "accept") = {}
          /\ impl'[s].state = impl[s].state]_vars

\* C3: listen() succeeds, moving the Socket to Listening, only on a TCP Socket
\* in state Bound; in any other state it fails and leaves the state unchanged.
C3_ListenOnlyFromBound ==
  [][\A s \in SockIds :
       Did("listen", s)
       => /\ last'.res = "ok"
               => /\ impl[s].type = "TCP" /\ impl[s].state = "Bind"
                  /\ impl'[s].state = "Listen"
          /\ impl[s].state # "Bind"
               => last'.res = "fail" /\ impl'[s].state = impl[s].state]_vars

\* C4: listen() on a Socket whose transport is not TCP fails with
\* UnsupportedOperation (EOPNOTSUPP), makes no OS call and leaves the state,
\* and the handle, unchanged.
C4_ListenNonTcp ==
  [][\A s \in SockIds :
       (Did("listen", s) /\ impl[s].type # "TCP")
       => /\ last'.res = "fail" /\ last'.err = "EOPNOTSUPP"
          /\ last'.os = <<>>
          /\ kfd' = kfd
          /\ impl'[s].state = impl[s].state /\ impl'[s].fd = impl[s].fd]_vars

C4_Witness ==
  /\ last.op = "listen" /\ last.s \in SockIds
  /\ impl[last.s].tag = "impl" /\ impl[last.s].type = "UDP"
  /\ last.res = "fail" /\ impl[last.s].last_error = "EOPNOTSUPP"

\* The operations a closed Socket must reject.
AfterCloseOps ==
  {"bind", "listen", "accept", "connect", "send", "recv", "shutdown"}

\* C5: once close() has been called on a Socket, every bind, listen, accept,
\* connect, send, receive and shutdown on it fails with InvalidState (EINVAL),
\* and none of them hands the OS a live descriptor.
C5_ClosedRejectsAll ==
  [][\A s \in SockIds :
       (last'.op \in AfterCloseOps /\ last'.s = s /\ HasImpl(s)
          /\ impl[s].closes > 0)
       => /\ last'.res = "fail" /\ last'.err = "EINVAL"
          /\ \A j \in 1..Len(last'.os) : ~Open(kfd, last'.os[j].fd)]_vars

\* C6: every descriptor is released exactly once: no ::close is issued on a
\* descriptor that has already been released, and no descriptor has two live
\* owners.
C6_ReleasedOnce ==
  /\ \A j \in OsCalls(last.os, "close") : last.os[j].ret = 0
  /\ \A s, t \in SockIds :
       (HasImpl(s) /\ HasImpl(t) /\ s # t /\ is_valid(impl[s].fd))
       => impl[s].fd # impl[t].fd

\* C7: after a first close() the handle is invalid and the state Closed, and
\* a second close() is a no-op: it changes neither state, handle nor
\* last-error slot, issues no OS call and raises no fault.
C7_CloseIdempotent ==
  [][\A s \in SockIds :
       /\ (HasImpl(s) /\ impl'[s].tag = "impl" /\ impl'[s].closes > 0
             /\ last'.op \in MemberOps)
            => ~is_valid(impl'[s].fd) /\ impl'[s].state = "Close"
       /\ (Did("close", s) /\ impl[s].closes > 0)
            => /\ last'.res = "ok" /\ last'.os = <<>> /\ kfd' = kfd
               /\ impl'[s].fd = impl[s].fd
               /\ impl'[s].state = impl[s].state
               /\ impl'[s].last_error = impl[s].last_error]_vars

C7_Witness ==
  /\ last.op = "close" /\ last.s \in SockIds
  /\ impl[last.s].tag = "impl" /\ impl[last.s].closes = 2

\* C8: the last-error slot changes only in a call that fails, which sets it
\* to that failure's error code; a successful call leaves it as it was.
C8_StickyError ==
  [][\A s \in SockIds :
       (last'.op \in MemberOps /\ HasImpl(s) /\ impl'[s].tag = "impl")
       => /\ impl'[s].last_error # impl[s].last_error
               => /\ last'.s = s /\ last'.res = "fail"
                  /\ impl'[s].last_error = last'.err
          /\ (last'.s = s /\ last'.res = "ok")
               => impl'[s].last_error = impl[s].last_error]_vars

C8_Witness ==
  /\ last.op \in MemberOps \ {"close", "shutdown"} /\ last.res = "ok"
  /\ last.s \in SockIds
  /\ impl[last.s].tag = "impl" /\ impl[last.s].last_error # "none"

\* C9: a Socket-layer operation never raises a fault; its failure is a
\* false / absent result, with the error code in the Socket's last-error slot
\* (create: with no Socket made).
C9_FailuresAreValues ==
  /\ last.res # "throw"
  /\ (last.res = "fail" /\ last.op = "create") => impl[last.s].tag = "none"
  /\ (last.res = "fail" /\ last.op \in MemberOps \ {"shutdown"})
       => impl[last.s].last_error = last.err

\* C10: a successful accept() returns a new Socket in state Connected whose
\* handle holds exactly the descriptor the OS accept returned, distinct from
\* the listener's, with the peer's address, and leaves the listener's state
\* (Listening) and handle unchanged.
C10_AcceptResult ==
  [][\A s \in SockIds :
       (Did("accept", s) /\ last'.res = "ok")
       => /\ last'.t \in SockIds /\ last'.t # s
          /\ impl[last'.t].tag = "none" /\ impl'[last'.t].tag = "impl"
          /\ impl'[last'.t].state = "Connect"
          /\ \E j \in OsCalls(last'.os, "accept") :
               /\ last'.os[j].fd = impl[s].fd
               /\ last'.os[j].ret = impl'[last'.t].fd
          /\ is_valid(impl'[last'.t].fd)
          /\ impl'[last'.t].fd # impl'[s].fd
          /\ kfd'[impl'[last'.t].fd] = "connected"
          /\ ~Open(kfd, impl'[last'.t].fd)
          /\ last'.addr = last'.peer /\ last'.addr \in Peers
          /\ impl[s].state = "Listen" /\ impl'[s] = impl[s]
          /\ kfd'[impl[s].fd] = kfd[impl[s].fd]]_vars

C10_Witness ==
  /\ last.op = "accept" /\ last.res = "ok" /\ last.t \in SockIds
  /\ impl[last.t].tag = "impl" /\ impl[last.t].state = "Connect"

\* C11: bind() returns success and moves the Socket to Bound exactly when the
\* OS bind succeeds; when the OS bind fails it returns failure carrying the
\* OS error and leaves the Socket's state and handle unchanged.
C11_BindOutcome ==
  [][\A s \in SockIds :
       Did("bind", s)
       => /\ Len(last'.os) = 1 /\ last'.os[1].call = "bind"
          /\ last'.os[1].fd = impl[s].fd
          /\ last'.os[1].ret = 0
               => /\ last'.res = "ok" /\ impl'[s].state = "Bind"
                  /\ impl'[s].fd = impl[s].fd
          /\ last'.os[1].ret # 0
               => /\ last'.res = "fail" /\ last'.err # "none"
                  /\ impl'[s].last_error = last'.err
                  /\ impl'[s].state = impl[s].state
                  /\ impl'[s].fd = impl[s].fd
                  /\ kfd' = kfd]_vars

\* A second bind() refused by the OS on a Socket a first bind() had bound.
C11_Witness ==
  /\ last.op = "bind" /\ last.res = "fail" /\ last.err = "EINVAL"
  /\ last.s \in SockIds /\ impl[last.s].tag = "impl"
  /\ is_valid(impl[last.s].fd) /\ kfd[impl[last.s].fd] = "bound"
  /\ impl[last.s].state = "Bind"

\* C13: an Endpoint built from a well-formed dotted-decimal text and a port
\* reads back as exactly that text, byte for byte and of the same length, and
\* that port in host byte order.
C13_EndpointRoundTrip ==
  ep.op = "read" => ep.ip = ep.ipA /\ ep.port = ep.portA

\* C14: two Endpoints compare equal exactly when family, numeric address and
\* port are all equal; with equal addresses and different ports they compare
\* unequal.
C14_EndpointEquality ==
  ep.op = "compared"
  => (ep.eq <=> /\ ep.a.sin_family = ep.b.sin_family
                /\ ep.a.s_addr = ep.b.s_addr
                /\ SocketAddr_port(ep.a) = SocketAddr_port(ep.b))

\* The shortest prefix of text t that ends with delim (t contains delim).
ShortestPrefix(t, delim) ==
  LET ends == {n \in 1..Len(t) : EndsWith(SubSeq(t, 1, n), delim)}
  IN SubSeq(t, 1, CHOOSE n \in ends : \A m \in ends : n <= m)

\* Text t has delim wholly within its first n characters.
ContainsWithin(t, delim, n) ==
  \E k \in 1..n : k <= Len(t) /\ EndsWith(SubSeq(t, 1, k), delim)

\* C12: when the stream holds the delimiter within its first max_length bytes
\* and no ::recv fails, recv_until returns exactly the shortest prefix ending
\* with the delimiter and leaves every byte after it unread; the next read
\* returns the unread bytes from the first one on.
C12_RecvUntilPrefix ==
  /\ (http.op = "recv_until" /\ http.res = "ok"
        /\ ContainsWithin(http.stream, http.delim, http.max_length))
       => /\ http.val = ShortestPrefix(http.stream, http.delim)
          /\ http.val \o inb = http.stream
  /\ (http.op = "next_read" /\ http.res = "ok")
       => http.val # <<>> /\ http.val \o inb = http.stream

\* recv_until("\r\n\r\n") has returned a header block and left GARBAGE unread.
C12_Witness ==
  /\ http.op = "recv_until" /\ http.res = "ok" /\ http.delim = CRLFCRLF
  /\ ends_with(http.val, CRLFCRLF) /\ inb = Garbage

\* The bytes of header lines and a body as they appear on the connection.
RECURSIVE Wire(_)
Wire(lines) ==
  IF lines = <<>> THEN <<>> ELSE Head(lines) \o CRLF \o Wire(Tail(lines))

Lines200(path, content) ==
  <<Status200, ContentLength \o ToDigits(Len(content)),
    ContentType \o get_content_type(path), <<>> >>

\* The handler answered with the bodiless response of the given status line:
\* it handed send the status line, "Content-Length: 0", one more header line
\* and the empty line, and nothing else.
Answered(status) ==
  /\ Len(http.sent) = 4
  /\ http.sent[1] = status \o CRLF
  /\ http.sent[2] = ContentLength \o <<"0">> \o CRLF
  /\ http.sent[4] = CRLF

\* Every ::send of the connection took the whole buffer it was given.
SendsComplete == http.fault.at = 0 \/ http.fault.at > Len(http.sent)

\* The buffers handed to send, one after the other.
RECURSIVE Flat(_)
Flat(buffers) ==
  IF buffers = <<>> THEN <<>> ELSE Head(buffers) \o Flat(Tail(buffers))

\* The file a request path names.
FileOf(path) == fsys[Tail(path)]

\* C15: for the request "GET <path> HTTP/1.0" CRLF CRLF with a path of the
\* grammar naming a readable file, the bytes on the connection are exactly
\* the 200 status line, Content-Length, Content-Type, the empty line and the
\* file's bytes, also when an OS send takes fewer bytes than it was given.
C15_Get200Bytes ==
  (/\ http.op = "process" /\ http.failAt = 0 /\ http.fault.kind # "fail"
   /\ \E p \in Paths :
        /\ http.stream = GET \o <<" ">> \o p \o <<" ">> \o Version \o CRLFCRLF
        /\ is_valid_filename(p) /\ FileOf(p).kind = "regular")
  => outb = Wire(Lines200(http.path, FileOf(http.path).content))
              \o FileOf(http.path).content

C18_Unterminated400 ==
  (http.op = "process" /\ http.failAt = 0
     /\ ~ContainsWithin(http.stream, CRLFCRLF, MaxHeader))
  => Answered(Status400)

\* C19: a request whose first line does not split into exactly three words
\* gets the 400 response.
C19_ThreeTokens400 ==
  (http.op = "process" /\ http.failAt = 0
     /\ find(http.val, CRLF) # 0
     /\ Len(Words(SubSeq(http.val, 1, find(http.val, CRLF) - 1))) # 3)
  => Answered(Status400)

\* C20: a GET or HEAD for a path of the grammar whose file does not exist or
\* cannot be read gets the 404 response, and no 200 status line is sent.
C20_Unreadable404 ==
  (http.op = "process" /\ http.parsed /\ is_valid_filename(http.path)
     /\ http.method \in {"GET", "HEAD"}
     /\ FileOf(http.path).kind # "regular")
  => http.res = "done" /\ Answered(Status404)

\* The prefix every status line starts with.
HttpVersion == <<"H", "T", "T", "P", "/", "1", ".", "0", " ">>

\* The buffer is one line ending in CRLF that starts with the given text.
LineWith(buffer, prefix) ==
  starts_with(buffer, prefix) /\ ends_with(buffer, CRLF)

\* C21: every response the handler emits, whatever its status, is made of
\* CRLF-terminated lines in this order: the status line "HTTP/1.0 ...", the
\* line "Content-Length: <n>", the line "Content-Type: <mime>" (name, colon,
\* space, value) and the empty line; only the body may follow.
C21_ResponseLayout ==
  (http.op = "process" /\ Len(http.sent) >= 4)
  => /\ LineWith(http.sent[1], HttpVersion)
     /\ LineWith(http.sent[2], ContentLength)
     /\ LineWith(http.sent[3], ContentType)
     /\ http.sent[4] = CRLF
     /\ Len(http.sent) <= 5

\* The status lines among the buffers handed to send.
StatusLines(buffers) ==
  {j \in 1..Len(buffers) : starts_with(buffers[j], HttpVersion)}

\* C22: whatever the peer sent and whatever data/ holds, the handler of a
\* connection emits exactly one response: exactly one status line, never
\* none and never two.
C22_OneResponse ==
  http.op = "process" => Cardinality(StatusLines(http.sent)) = 1

\* What the handler hands to send for "GET <path> HTTP/1.0" CRLF CRLF on a
\* freshly accepted client, with data/ as it is.
GetSent(path) ==
  process_connection(World([d \in Fds |-> IF d = ClientFd THEN "connected"
                                          ELSE "free"]),
                     ClientImpl, fsys,
                     GET \o <<" ">> \o path \o <<" ">> \o Version \o CRLFCRLF,
                     NoFault, 0).end.sent

\* The first n buffers of a sequence of buffers.
FirstBuffers(buffers, n) ==
  SubSeq(buffers, 1, IF Len(buffers) < n THEN Len(buffers) ELSE n)

\* C26: for every path of the grammar and every state of data/, HEAD hands
\* send the same status line and header lines, Content-Length value
\* included, as GET for that path does, and nothing after the empty line.
C26_HeadLikeGet ==
  (http.op = "process" /\ http.parsed /\ http.method = "HEAD"
     /\ is_valid_filename(http.path))
  => /\ http.sent = FirstBuffers(GetSent(http.path), 4)
     /\ SendsComplete => outb = Flat(FirstBuffers(GetSent(http.path), 4))

\* HEAD on a file with bytes in it: the 200 header announcing the file's
\* length went out, and no byte of the file.
C26_Witness ==
  /\ http.op = "process" /\ http.parsed /\ http.method = "HEAD"
  /\ is_valid_filename(http.path)
  /\ FileOf(http.path).kind = "regular"
  /\ Len(FileOf(http.path).content) = MaxFile
  /\ Len(http.sent) = 4 /\ http.sent[1] = Status200 \o CRLF
  /\ http.sent[2] =
       ContentLength \o ToDigits(Len(FileOf(http.path).content)) \o CRLF
  /\ Len(GetSent(http.path)) = 5
  /\ outb = Flat(http.sent)

LF == <<"\n">>

\* C27: a successful recv_line(max_length) returns the shortest prefix of
\* the stream ending with a line feed when there is one within max_length
\* bytes, else the first max_length bytes, else (the peer closed first) the
\* whole stream; the result is at most max_length bytes long, has a line
\* feed nowhere but at its end, and exactly its bytes left the stream.
C27_RecvLine ==
  (http.op = "recv_line" /\ http.res = "ok")
  => /\ http.val =
          IF ContainsWithin(http.stream, LF, http.max_length)
          THEN ShortestPrefix(http.stream, LF)
          ELSE IF Len(http.stream) >= http.max_length
          THEN SubSeq(http.stream, 1, http.max_length)
          ELSE http.stream
     /\ Len(http.val) <= http.max_length
     /\ \A j \in 1..(Len(http.val) - 1) : http.val[j] # "\n"
     /\ http.val \o inb = http.stream

\* recv_line cut a line short at max_length: no line feed in the result, and
\* the rest of the line, line feed included, still unread.
C27_Witness ==
  /\ http.op = "recv_line" /\ http.res = "ok"
  /\ Len(http.val) = http.max_length /\ http.max_length > 0
  /\ \A j \in 1..Len(http.val) : http.val[j] # "\n"
  /\ find(inb, LF) # 0

\* The live Sockets holding descriptor d.
Owners(d) == {s \in SockIds : impl[s].tag = "impl" /\ impl[s].fd = d}

\* C28: no descriptor leaks: after any sequence of create, accept (with any
\* outcome), move, close and destruction, every descriptor the OS handed out
\* and has not closed is owned by exactly one live Socket.
C28_NoLeak ==
  \A d \in Fds : Open(kfd, d) => Cardinality(Owners(d)) = 1

\* The descriptors of accepted connections the kernel holds open.
Accepted == {d \in Fds : kfd[d] = "connected"}

\* C23: the accept loop serves one connection at a time: never are two
\* accepted sockets open at once; when main calls accept() no accepted
\* socket is open and no client Socket is left; and at the end of the loop
\* body the client has been closed (descriptor released, state Close), also
\* when its handler raised a fault.
C23_OneAtATime ==
  /\ Cardinality(Accepted) <= 1
  /\ srv.pc = "accept" => Accepted = {} /\ impl[Client].tag = "none"
  /\ srv.pc = "end"
       => /\ Accepted = {}
          /\ impl[Client].tag = "impl" /\ impl[Client].state = "Close"
          /\ ~is_valid(impl[Client].fd)

\* main is about to call accept() again after a connection whose handler
\* raised a fault.
C23_Witness ==
  /\ srv.pc = "accept" /\ srv.served /\ srv.fault
  /\ Accepted = {} /\ impl[Server].state = "Listen"

\* C24: nothing that happens while accepting or serving one connection ends
\* the server: main leaves the loop only at the loop condition with the
\* shutdown flag set, and the socket it accepts on is still listening.
C24_LoopSurvives ==
  /\ [][srv.pc \in LoopPcs
          => \/ srv'.pc \in LoopPcs
             \/ srv'.pc = "shutdown" /\ srv.flag]_vars
  /\ [](srv.pc = "accept"
          => impl[Server].state = "Listen" /\ kfd[impl[Server].fd] = "listening")

\* The step is the signal handler's: it sets the flag and nothing else.
OnlyFlagSet ==
  /\ srv' = [srv EXCEPT !.flag = TRUE]
  /\ UNCHANGED <<sockVars, httpVars, addrVars>>

\* The step issued an ::accept call.
AcceptIssued ==
  last' # last /\ \E j \in 1..Len(last'.os) : last'.os[j].call = "accept"

====
